---- MODULE Spec2Model ----
(***************************************************************************)
(* A model of tofino's state machines:                                     *)
(*   - the per-window tab reducer (ui/browser/reducers/main-reducers.js),  *)
(*   - the window's bookmark actions (exercised by test-unbookmark.js),    *)
(*   - the main process (app/main/browser.js): the store, the diff engine  *)
(*     sendDiffsToWindows, window creation and the finished-loading        *)
(*     promise.                                                            *)
(* Indices are 0-based as in the source; the List operators translate to   *)
(* TLA+'s 1-based sequences.                                               *)
(***************************************************************************)
EXTENDS Integers, Sequences, FiniteSets, TLC

VARIABLES
    \* ---- tab reducer (one window's State record) ----
    pages,              \* State.pages: Immutable.List of Page
    pageOrder,          \* State.pageOrder: Immutable.List of page indices
    currentPageIndex,   \* State.currentPageIndex
    action,             \* the action the reducer handled last
    \* ---- bookmark actions of a window ----
    profile,            \* the window's profile state: the bookmark set
    sessions,           \* sessionId of each page, by page id
    requests,           \* fetch requests issued so far
    trail,              \* the last two bookmark actions dispatched
    \* ---- main process ----
    store,              \* the main store's ProfileState
    currentState,       \* browser.js `currentState`: the previous snapshot
    bw,                 \* the native BrowserWindow of each id
    thens,              \* callbacks waiting on each didFinishLoadPromise
    micro,              \* promise callbacks ready to run (the microtask queue)
    cmds,               \* window-creating commands in flight
    effects,            \* what the last handler did: diff runs, callbacks run
    storage,            \* profileStoragePromise and what the storage holds
    ready,              \* where app.on('ready') stands
    exit                \* the exit status of the process, 0 while it runs

tabVars  == <<pages, pageOrder, currentPageIndex, action>>
uiVars   == <<profile, sessions, requests, trail>>
mainVars == <<store, currentState, bw, thens, micro, cmds, effects, storage,
              ready, exit>>
vars     == <<tabVars, uiVars, mainVars>>

----------------------------------------------------------------------------
(* Bounds of the model *)

\* pages of a window under Spec, the whole reducer
MaxPages == 2
\* pages of a window under SpecCreateClose
MaxTabs == 5
\* pages of a window under SpecReorder
MaxReorder == 3
\* fetch requests a window issues under SpecBookmarks
MaxRequests == 2
\* browser windows the main process creates under SpecMain
MaxWindows == 2

----------------------------------------------------------------------------
(* JavaScript values held in a Page field *)

Undefined == [tag |-> "undefined", str |-> "", obj |-> <<>>]
Null      == [tag |-> "null", str |-> "", obj |-> <<>>]
Str(s)    == [tag |-> "string", str |-> s, obj |-> <<>>]
Obj(e)    == [tag |-> "object", str |-> "", obj |-> <<e>>]
\* a key that a details object does not have
Absent    == [tag |-> "absent", str |-> "", obj |-> <<>>]

HOME_PAGE == Str("https://www.mozilla.org/")

\* Page: an Immutable.Record; a field the constructor is not given keeps
\* the record's default.
PageDefaults == [location |-> Undefined, userTyped |-> Null]

Page(o) ==
    [kind |-> "Page",
     location  |-> IF o.location = Absent THEN PageDefaults.location ELSE o.location,
     userTyped |-> IF o.userTyped = Absent THEN PageDefaults.userTyped ELSE o.userTyped]

\* the Immutable.Map that setIn creates where the key path finds nothing
EmptyMap == [kind |-> "Map", location |-> Undefined, userTyped |-> Undefined]

\* element.set(key, value), of a Page record or of a Map
SetKey(e, key, value) ==
    IF key = "location" THEN [e EXCEPT !.location = value]
    ELSE [e EXCEPT !.userTyped = value]

RECURSIVE Nest(_)
\* how deep a location holds an object instead of a string
Nest(v) == IF v.tag = "object" THEN 1 + Nest(v.obj[1].location) ELSE 0

----------------------------------------------------------------------------
(* Immutable.List (v3): the operations the reducer uses *)

\* wrapIndex: a negative index counts from the end
WrapIndex(list, index) == IF index < 0 THEN Len(list) + index ELSE index

ListHas(list, index) ==
    LET i == WrapIndex(list, index) IN i >= 0 /\ i < Len(list)

ListGet(list, index, notSet) ==
    IF ListHas(list, index) THEN list[WrapIndex(list, index) + 1] ELSE notSet

ListPush(list, v) == Append(list, v)

\* delete(index): nothing when the list has no such index, else splice it out
ListDelete(list, index) ==
    IF ~ListHas(list, index) THEN list
    ELSE LET i == WrapIndex(list, index) + 1
         IN  [k \in 1..(Len(list) - 1) |-> IF k < i THEN list[k] ELSE list[k + 1]]

\* indexOf(v): the first position holding v, or -1
ListIndexOf(list, v) ==
    IF \E k \in 1..Len(list) : list[k] = v
    THEN (CHOOSE k \in 1..Len(list) :
              list[k] = v /\ \A j \in 1..(k - 1) : list[j] # v) - 1
    ELSE -1

\* map(i => ...) of closeTab over the page order: the indices after the
\* closed page move down by one
ListMapRenumber(list, pageIndex) ==
    [k \in 1..Len(list) |->
        IF list[k] < pageIndex THEN list[k] ELSE list[k] - 1]

\* pages.setIn([index, key], value), for index <= size: an index the list has
\* gets the key set on its element; the index just past the end gets a new
\* Map holding only that key.
ListSetIn(list, index, key, value) ==
    IF ListHas(list, index)
    THEN [list EXCEPT ![WrapIndex(list, index) + 1] = SetKey(@, key, value)]
    ELSE Append(list, SetKey(EmptyMap, key, value))

----------------------------------------------------------------------------
(* The tab reducer: main-reducers.js *)

State(p, po, c) == [pages |-> p, pageOrder |-> po, currentPageIndex |-> c]

initialState ==
    State(<<Page([location |-> HOME_PAGE, userTyped |-> Absent])>>, <<0>>, 0)

\* createTab reading the size of the page list after the push
createTab_SizeAfterPush(state, location) ==
    LET loc  == IF location \in {Undefined, Absent} THEN HOME_PAGE ELSE location
        page == Page([location |-> loc, userTyped |-> Absent])
    IN  State(ListPush(state.pages, page),
              ListPush(state.pageOrder, Len(state.pages)),
              Len(state.pages) + 1)

createTab(state, location) ==
    LET loc  == IF location \in {Undefined, Absent} THEN HOME_PAGE ELSE location
        page == Page([location |-> loc, userTyped |-> Absent])
    IN  State(ListPush(state.pages, page),
              ListPush(state.pageOrder, Len(state.pages)),
              Len(state.pages))

duplicateTab(state, pageIndex) ==
    LET location == IF ListHas(state.pages, pageIndex)
                    THEN Obj(ListGet(state.pages, pageIndex, Undefined))
                    ELSE Undefined
        page     == Page([location |-> location, userTyped |-> Absent])
    IN  State(ListPush(state.pages, page),
              ListPush(state.pageOrder, Len(state.pages)),
              Len(state.pages))

attachTab(state, page) == State(<<Page(page)>>, <<0>>, 0)

\* closeTab without the renumbering of the page order
closeTab_NoRenumber(state, pageIndex) ==
    IF Len(state.pages) = 1 THEN initialState
    ELSE
    LET orderIndex == ListIndexOf(state.pageOrder, pageIndex)
    IN  State(ListDelete(state.pages, pageIndex),
              ListDelete(state.pageOrder, orderIndex),
              IF state.currentPageIndex = pageIndex
              THEN (IF orderIndex > 0 THEN orderIndex - 1 ELSE orderIndex)
              ELSE IF state.currentPageIndex > pageIndex
                   THEN state.currentPageIndex - 1
                   ELSE state.currentPageIndex)

\* closeTab leaving the selection where it was when another page is closed
closeTab_NoDecrement(state, pageIndex) ==
    IF Len(state.pages) = 1 THEN initialState
    ELSE
    LET orderIndex == ListIndexOf(state.pageOrder, pageIndex)
    IN  State(ListDelete(state.pages, pageIndex),
              ListMapRenumber(ListDelete(state.pageOrder, orderIndex), pageIndex),
              IF state.currentPageIndex = pageIndex
              THEN (IF orderIndex > 0 THEN orderIndex - 1 ELSE orderIndex)
              ELSE state.currentPageIndex)

\* closeTab without the reset on the last tab
closeTab_NoReset(state, pageIndex) ==
    LET orderIndex == ListIndexOf(state.pageOrder, pageIndex)
    IN  State(ListDelete(state.pages, pageIndex),
              ListMapRenumber(ListDelete(state.pageOrder, orderIndex), pageIndex),
              IF state.currentPageIndex = pageIndex
              THEN (IF orderIndex > 0 THEN orderIndex - 1 ELSE orderIndex)
              ELSE IF state.currentPageIndex > pageIndex
                   THEN state.currentPageIndex - 1
                   ELSE state.currentPageIndex)

\* closeTab deleting from pageOrder at pageIndex, not at the position that
\* holds pageIndex
closeTab_DeletesAtPageIndex(state, pageIndex) ==
    IF Len(state.pages) = 1 THEN initialState
    ELSE
    LET orderIndex == ListIndexOf(state.pageOrder, pageIndex)
    IN  State(ListDelete(state.pages, pageIndex),
              ListMapRenumber(ListDelete(state.pageOrder, pageIndex), pageIndex),
              IF state.currentPageIndex = pageIndex
              THEN (IF orderIndex > 0 THEN orderIndex - 1 ELSE orderIndex)
              ELSE IF state.currentPageIndex > pageIndex
                   THEN state.currentPageIndex - 1
                   ELSE state.currentPageIndex)

closeTab(state, pageIndex) ==
    IF Len(state.pages) = 1 THEN initialState
    ELSE
    LET newPages   == ListDelete(state.pages, pageIndex)
        orderIndex == ListIndexOf(state.pageOrder, pageIndex)
        newOrder   == ListMapRenumber(ListDelete(state.pageOrder, orderIndex), pageIndex)
        newCurrent ==
            IF state.currentPageIndex = pageIndex
            THEN (IF orderIndex > 0 THEN orderIndex - 1 ELSE orderIndex)
            ELSE IF state.currentPageIndex > pageIndex
                 THEN state.currentPageIndex - 1
                 ELSE state.currentPageIndex
    IN  State(newPages, newOrder, newCurrent)

setLocation(state, userTyped) ==
    [state EXCEPT !.pages =
        ListSetIn(state.pages, state.currentPageIndex, "userTyped", userTyped)]

\* objectEntries(details), in the object's key order
DetailKeys(details) ==
    (IF details.location # Absent THEN <<"location">> ELSE <<>>)
    \o (IF details.userTyped # Absent THEN <<"userTyped">> ELSE <<>>)

RECURSIVE ApplyDetails(_, _, _, _)
\* the for-loop of setPageDetails over the entries keys
ApplyDetails(p, pageIndex, details, keys) ==
    IF keys = <<>> THEN p
    ELSE ApplyDetails(ListSetIn(p, pageIndex, Head(keys), details[Head(keys)]),
                      pageIndex, details, Tail(keys))

\* setPageDetails without the translation of -1 to the selected page
setPageDetails_NoCurrent(state, pageIndex, details) ==
    [state EXCEPT !.pages =
        ApplyDetails(state.pages, pageIndex, details, DetailKeys(details))]

setPageDetails(state, pageIndex, details) ==
    LET idx == IF pageIndex = -1 THEN state.currentPageIndex ELSE pageIndex
    IN  [state EXCEPT !.pages =
            ApplyDetails(state.pages, idx, details, DetailKeys(details))]

setCurrentTab(state, pageIndex) == [state EXCEPT !.currentPageIndex = pageIndex]

setPageOrder(state, po) == [state EXCEPT !.pageOrder = po]

\* an action object, with the parameters its type does not carry left out
NoAction ==
    [type |-> "@@INIT", location |-> Absent, pageIndex |-> -1, userTyped |-> Absent,
     details |-> [location |-> Absent, userTyped |-> Absent],
     pageOrder |-> <<>>, page |-> [location |-> Absent, userTyped |-> Absent]]

basic(state, a) ==
    CASE a.type = "CREATE_TAB"       -> createTab(state, a.location)
      [] a.type = "DUPLICATE_TAB"    -> duplicateTab(state, a.pageIndex)
      [] a.type = "ATTACH_TAB"       -> attachTab(state, a.page)
      [] a.type = "CLOSE_TAB"        -> closeTab(state, a.pageIndex)
      [] a.type = "SET_LOCATION"     -> setLocation(state, a.userTyped)
      [] a.type = "SET_PAGE_DETAILS" -> setPageDetails(state, a.pageIndex, a.details)
      [] a.type = "SET_CURRENT_TAB"  -> setCurrentTab(state, a.pageIndex)
      [] a.type = "SET_PAGE_ORDER"   -> setPageOrder(state, a.pageOrder)
      [] OTHER                       -> state

----------------------------------------------------------------------------
(* The tab reducer as a state machine: one step per dispatched action *)

TabState == State(pages, pageOrder, currentPageIndex)

\* the inputs of the actions
Locations  == {Undefined, Str("http://a.com")}
UserTyped  == {Str("u")}
DetailSets == {[location |-> Str("http://a.com"), userTyped |-> Str("u")]}
PageData   == {[location |-> Str("http://a.com"), userTyped |-> Str("u")]}
\* every index of the page list, one below and one above
Indices    == -1..Len(pages)
LiveIndices == 0..(Len(pages) - 1)

PageOrders(n) ==
    {po \in [1..n -> 0..(n - 1)] : \A i, j \in 1..n : po[i] = po[j] => i = j}

IsPermutation(po, n) ==
    /\ Len(po) = n
    /\ \A i \in 0..(n - 1) : \E k \in 1..Len(po) : po[k] = i
    /\ \A i, j \in 1..Len(po) : po[i] = po[j] => i = j

Dispatch(a) ==
    LET s == basic(TabState, a)
    IN  /\ pages' = s.pages
        /\ pageOrder' = s.pageOrder
        /\ currentPageIndex' = s.currentPageIndex
        /\ action' = a
        /\ UNCHANGED <<uiVars, mainVars>>

\* max: the pages the specification lets a window hold
CreateTab(max) ==
    \E location \in Locations :
        /\ Len(pages) < max
        /\ Dispatch([NoAction EXCEPT !.type = "CREATE_TAB", !.location = location])

DuplicateTab ==
    \E pageIndex \in LiveIndices :
        /\ Len(pages) < MaxPages
        \* a page is duplicated while every page's location is a URL string
        /\ \A k \in 1..Len(pages) : Nest(pages[k].location) = 0
        /\ Dispatch([NoAction EXCEPT !.type = "DUPLICATE_TAB", !.pageIndex = pageIndex])

AttachTab ==
    \E page \in PageData :
        /\ page.location # Absent
        /\ Dispatch([NoAction EXCEPT !.type = "ATTACH_TAB", !.page = page])

CloseTab ==
    \E pageIndex \in Indices :
        Dispatch([NoAction EXCEPT !.type = "CLOSE_TAB", !.pageIndex = pageIndex])

\* CloseTab of a page that exists
CloseLiveTab ==
    \E pageIndex \in LiveIndices :
        Dispatch([NoAction EXCEPT !.type = "CLOSE_TAB", !.pageIndex = pageIndex])

SetLocation ==
    \E userTyped \in UserTyped :
        /\ ListHas(pages, currentPageIndex) \/ Len(pages) < MaxPages
        /\ Dispatch([NoAction EXCEPT !.type = "SET_LOCATION", !.userTyped = userTyped])

SetPageDetails ==
    \E pageIndex \in {-1} \cup LiveIndices, details \in DetailSets :
        /\ ListHas(pages, currentPageIndex) \/ Len(pages) < MaxPages
        /\ Dispatch([NoAction EXCEPT !.type = "SET_PAGE_DETAILS",
                                  !.pageIndex = pageIndex, !.details = details])

SetCurrentTab ==
    \E pageIndex \in LiveIndices :
        Dispatch([NoAction EXCEPT !.type = "SET_CURRENT_TAB", !.pageIndex = pageIndex])

SetPageOrder ==
    \E po \in PageOrders(Len(pages)) :
        Dispatch([NoAction EXCEPT !.type = "SET_PAGE_ORDER", !.pageOrder = po])

----------------------------------------------------------------------------
(* The bookmark actions of a window: main-actions.js bookmark / unbookmark, *)
(* as test-unbookmark.js and the remote bookmark service contract describe *)
(* them.  A URL is the sequence of its parts.                               *)

Urls == {<<"http", ":", "/", "/", "moz1.com">>, <<"moz2.com", "/", "a">>}
PageIds == {1, 2}
SessionIds == {1}
\* the sessionId of a page that was given none
NoSession == 0

UA_SERVICE_HTTP == <<"{base}">>

\* encodeURIComponent of one part: the reserved characters are escaped
EncodePart(c) ==
    CASE c = ":" -> "%3A"
      [] c = "/" -> "%2F"
      [] OTHER   -> c

\* a target built from the url as it is
encodeURIComponent_Unescaped(url) == url

encodeURIComponent(url) == [k \in 1..Len(url) |-> EncodePart(url[k])]

\* the request fetch() is given: method, target URL and JSON body
Request(method, url, session) ==
    [method |-> method,
     target |-> UA_SERVICE_HTTP \o <<"/stars/">> \o encodeURIComponent(url),
     session |-> session,
     status |-> "pending"]

\* the profile reducer of the window on a bookmark / unbookmark action
bookmarkReducer(bookmarks, url) == bookmarks \cup {url}

\* an unbookmark that leaves the set as it is
unbookmarkReducer_Keeps(bookmarks, url) == bookmarks

unbookmarkReducer(bookmarks, url) == bookmarks \ {url}

\* the trail keeps the last two bookmark actions, each with whether its url
\* was bookmarked before it and the position of the request it issued
Trail(type, pageId, url) ==
    LET e == [type |-> type, pageId |-> pageId, url |-> url,
              before |-> url \in profile, request |-> Len(requests) + 1]
    IN  IF trail = <<>> THEN <<e>> ELSE <<trail[Len(trail)], e>>

\* actions.setPageDetails(pageId, { sessionId }), once per page
SetSessionId ==
    \E pageId \in PageIds, sessionId \in SessionIds :
        /\ sessions[pageId] = NoSession
        /\ sessions' = [sessions EXCEPT ![pageId] = sessionId]
        /\ UNCHANGED <<profile, requests, trail, tabVars, mainVars>>

\* actions.bookmark(pageId, url, title): the local state change, then the
\* star request
Bookmark ==
    \E pageId \in PageIds, url \in Urls :
        /\ Len(requests) < MaxRequests
        /\ profile' = bookmarkReducer(profile, url)
        /\ requests' = Append(requests, Request("POST", url, sessions[pageId]))
        /\ trail' = Trail("BOOKMARK", pageId, url)
        /\ UNCHANGED <<sessions, tabVars, mainVars>>

\* actions.unbookmark(pageId, url): the local state change, then the
\* unstar request
Unbookmark ==
    \E pageId \in PageIds, url \in Urls :
        /\ Len(requests) < MaxRequests
        /\ profile' = unbookmarkReducer(profile, url)
        /\ requests' = Append(requests, Request("DELETE", url, sessions[pageId]))
        /\ trail' = Trail("UNBOOKMARK", pageId, url)
        /\ UNCHANGED <<sessions, tabVars, mainVars>>

\* a request settles, with success or with failure: nothing awaits it
Settle ==
    \E k \in 1..Len(requests), outcome \in {"ok", "failed"} :
        /\ requests[k].status = "pending"
        /\ requests' = [requests EXCEPT ![k].status = outcome]
        /\ UNCHANGED <<profile, sessions, trail, tabVars, mainVars>>

----------------------------------------------------------------------------
(* The main process: app/main/browser.js *)

WindowIds == 1..MaxWindows

\* process.exit(1) of the uncaughtException handler, process.exit(2) of the
\* unhandledRejection handler; exit = 0 is the process running
UncaughtExceptionExit == 1
UnhandledRejectionExit == 2
StoredUrls == {"http://a.com"}

RECURSIVE Ascending(_)
\* the ids of a set in ascending order: the order forEach visits them in
Ascending(S) ==
    IF S = {} THEN <<>>
    ELSE LET m == CHOOSE x \in S : \A y \in S : x <= y
         IN  <<m>> \o Ascending(S \ {m})

RECURSIVE ToJS(_)
\* Immutable.Set.toJS(): the array of the set's elements
ToJS(S) ==
    IF S = {} THEN <<>>
    ELSE LET x == CHOOSE x \in S : TRUE IN <<x>> \o ToJS(S \ {x})

\* the state configureStore() starts the main store in
initialProfile ==
    [browserWindows |-> {}, bookmarks |-> {}, recentBookmarks |-> <<>>,
     locations |-> {}]

\* the main store's reducer on the profile actions
profileReducer(state, a) ==
    CASE a.type = "bookmarkSet"         -> [state EXCEPT !.bookmarks = a.value]
      [] a.type = "recentBookmarks"     -> [state EXCEPT !.recentBookmarks = a.value]
      [] a.type = "locations"           -> [state EXCEPT !.locations = a.value]
      [] a.type = "createBrowserWindow" ->
             [state EXCEPT !.browserWindows = @ \cup {a.value}]
      [] a.type = "closeBrowserWindow"  ->
             [state EXCEPT !.browserWindows = @ \ {a.value}]
      [] OTHER                          -> state

\* a BrowserWindow that was never created
NoWindow == [status |-> "none", loaded |-> FALSE, tabInfo |-> FALSE]

\* BrowserWindow.fromId(id) is not null
fromId(wins, id) == wins[id].status = "open"

\* profileDiffs.bookmarks / profileDiffs.completions: the payload of a
\* profile-diff message
ProfileDiff(type, payload) == [type |-> type, payload |-> payload]

\* sendToAllWindows without the test of BrowserWindow.fromId's result
sendToAllWindows_Unguarded(cur, wins, event, args) ==
    LET ids == Ascending(cur.browserWindows)
    IN  [k \in 1..Len(ids) |-> [to |-> ids[k], event |-> event, args |-> args]]

\* sendToAllWindows: the messages it sends, one to each id of the store's
\* registry that still has a window
sendToAllWindows(cur, wins, event, args) ==
    LET ids == Ascending({id \in cur.browserWindows : fromId(wins, id)})
    IN  [k \in 1..Len(ids) |-> [to |-> ids[k], event |-> event, args |-> args]]

\* the comparison of the bookmarks made on the recent bookmarks
bookmarksChanged_Recent(previousState, cur) ==
    \/ ~previousState.defined
    \/ cur.recentBookmarks # previousState.value.recentBookmarks

recentBookmarksChanged(previousState, cur) ==
    \/ ~previousState.defined
    \/ cur.recentBookmarks # previousState.value.recentBookmarks

bookmarksChanged(previousState, cur) ==
    \/ ~previousState.defined
    \/ cur.bookmarks # previousState.value.bookmarks

locationsChanged(previousState, cur) ==
    \/ ~previousState.defined
    \/ cur.locations # previousState.value.locations

\* promise.then(callback) that calls the callback at once
then_Now(wins, ts, mq, cb) == [thens |-> ts, micro |-> Append(mq, cb)]

\* bw.didFinishLoadPromise.then(callback): the callback is queued when the
\* promise is resolved, and waits for it otherwise
then(wins, ts, mq, cb) ==
    IF wins[cb.id].loaded
    THEN [thens |-> ts, micro |-> Append(mq, cb)]
    ELSE [thens |-> [ts EXCEPT ![cb.id] = Append(@, cb)], micro |-> mq]

RECURSIVE thenAll(_, _, _, _)
\* then() of each callback of cbs, in order
thenAll(wins, ts, mq, cbs) ==
    IF cbs = <<>> THEN [thens |-> ts, micro |-> mq]
    ELSE LET r == then(wins, ts, mq, Head(cbs))
         IN  thenAll(wins, r.thens, r.micro, Tail(cbs))

Callbacks(ids, effect) == [k \in 1..Len(ids) |-> [id |-> ids[k], effect |-> effect]]

\* the window diff made by position in the two registries instead of by id
WindowCallbacks_Positional(previousState, cur, wins) ==
    LET c == Ascending(cur.browserWindows)
        p == Ascending(previousState.value.browserWindows)
    IN  IF previousState.defined /\ c # p
        THEN Callbacks(Ascending({c[k] : k \in {j \in 1..Len(c) :
                           (j > Len(p) \/ c[j] # p[j]) /\ fromId(wins, c[j])}}),
                       "show")
             \o
             Callbacks(Ascending({p[k] : k \in {j \in 1..Len(p) :
                           (j > Len(c) \/ p[j] # c[j]) /\ fromId(wins, p[j])}}),
                       "close")
        ELSE <<>>

\* the callbacks one run of sendDiffsToWindows registers: show for the ids
\* new in the registry, close for the ids gone from it, of windows that exist
WindowCallbacks(previousState, cur, wins) ==
    IF previousState.defined /\ cur.browserWindows # previousState.value.browserWindows
    THEN Callbacks(Ascending({id \in cur.browserWindows :
                       id \notin previousState.value.browserWindows /\ fromId(wins, id)}),
                   "show")
         \o
         Callbacks(Ascending({id \in previousState.value.browserWindows :
                       id \notin cur.browserWindows /\ fromId(wins, id)}),
                   "close")
    ELSE <<>>

\* one run of sendDiffsToWindows, on the store's state cur: the callbacks it
\* leaves registered, the menus it builds and the messages it sends
sendDiffsToWindows(previousState, cur, wins, ts, mq) ==
    LET reg == thenAll(wins, ts, mq, WindowCallbacks(previousState, cur, wins))
        menu == IF recentBookmarksChanged(previousState, cur) THEN 1 ELSE 0
        sentBookmarks ==
            IF bookmarksChanged(previousState, cur)
            THEN sendToAllWindows(cur, wins, "profile-diff",
                                  ProfileDiff("bookmarks", ToJS(cur.bookmarks)))
            ELSE <<>>
        sentLocations ==
            IF locationsChanged(previousState, cur)
            THEN sendToAllWindows(cur, wins, "profile-diff",
                                  ProfileDiff("completions", ToJS(cur.locations)))
            ELSE <<>>
    IN  [thens |-> reg.thens,
         micro |-> reg.micro,
         menu  |-> menu,
         sent  |-> sentBookmarks \o sentLocations]

\* a handler that dispatched nothing and ran no promise callback
NoEffects == [diffed |-> FALSE, menu |-> 0, sent |-> <<>>, ran |-> <<>>,
              attached |-> {}, returned |-> <<>>]

\* a handler of the event loop runs while the process runs, no promise
\* callback is ready and no other handler is under way
Idle == exit = 0 /\ micro = <<>> /\ ready # "seeding"

\* store.dispatch(a) with the windows wins: the reducer, then the subscriber
\* sendDiffsToWindows
Dispatches(a, wins) ==
    LET cur == profileReducer(store, a)
        d   == sendDiffsToWindows(currentState, cur, wins, thens, micro)
    IN  /\ store' = cur
        /\ currentState' = [defined |-> TRUE, value |-> cur]
        /\ thens' = d.thens
        /\ micro' = d.micro
        /\ effects' = [NoEffects EXCEPT !.diffed = TRUE, !.menu = d.menu,
                                        !.sent = d.sent]

StoreAction(type, value) == [type |-> type, value |-> value]

\* windows created so far, and the ones commands in flight will create
Created == {id \in WindowIds : bw[id].status # "none"}

\* a command starts while the windows of the model are not all taken by
\* the windows created and the commands under way
CanStartCommand == Cardinality(Created) + Len(cmds) < MaxWindows

\* profileStoragePromise resolves
StorageOpens ==
    /\ Idle
    /\ storage.open = "pending"
    /\ storage' = [storage EXCEPT !.open = "resolved"]
    /\ effects' = NoEffects
    /\ UNCHANGED <<store, currentState, bw, thens, micro, cmds, ready, exit>>
    /\ UNCHANGED <<tabVars, uiVars>>

\* profileStoragePromise rejects, with an Error as its reason: the rejection
\* is unhandled, or rejects the async handlers that await it, which nothing
\* handles either; exit 2
StorageFails ==
    /\ Idle
    /\ storage.open = "pending"
    /\ storage' = [storage EXCEPT !.open = "rejected"]
    /\ exit' = UnhandledRejectionExit
    /\ effects' = NoEffects
    /\ UNCHANGED <<store, currentState, bw, thens, micro, cmds, ready>>
    /\ UNCHANGED <<tabVars, uiVars>>

\* app.on('ready'), up to its first await
AppReady ==
    /\ Idle
    /\ ready = "waiting"
    /\ ready' = "storage"
    /\ effects' = NoEffects
    /\ UNCHANGED <<store, currentState, bw, thens, micro, cmds, storage, exit>>
    /\ UNCHANGED <<tabVars, uiVars>>

\* app.on('ready') seeding without awaiting the storage handle
ReadySeedsBookmarks_NoAwait ==
    /\ Idle
    /\ CanStartCommand
    /\ ready = "storage"
    /\ ready' = "seeding"
    /\ Dispatches(StoreAction("bookmarkSet", storage.starred), bw)
    /\ UNCHANGED <<bw, cmds, storage, exit>>
    /\ UNCHANGED <<tabVars, uiVars>>

\* app.on('ready') past its awaits of the storage, of starred() and of
\* recentlyStarred(): the first seed dispatch
ReadySeedsBookmarks ==
    /\ Idle
    /\ CanStartCommand
    /\ ready = "storage"
    /\ storage.open = "resolved"
    /\ ready' = "seeding"
    /\ Dispatches(StoreAction("bookmarkSet", storage.starred), bw)
    /\ UNCHANGED <<bw, cmds, storage, exit>>
    /\ UNCHANGED <<tabVars, uiVars>>

\* app.on('ready'), on in the same turn: the second seed dispatch and the
\* new-browser-window command
ReadySeedsRecent ==
    /\ exit = 0
    /\ ready = "seeding"
    /\ ready' = "done"
    /\ Dispatches(StoreAction("recentBookmarks", storage.recentlyStarred), bw)
    /\ cmds' = Append(cmds, [kind |-> "new-window", by |-> "ready",
                             pc |-> "storage"])
    /\ UNCHANGED <<bw, storage, exit>>
    /\ UNCHANGED <<tabVars, uiVars>>

\* app.on('activate')
Activate ==
    /\ Idle
    /\ CanStartCommand
    /\ store.browserWindows = {}
    /\ cmds' = Append(cmds, [kind |-> "new-window", by |-> "activate",
                             pc |-> "storage"])
    /\ effects' = NoEffects
    /\ UNCHANGED <<store, currentState, bw, thens, micro, storage, ready, exit>>
    /\ UNCHANGED <<tabVars, uiVars>>

\* ipc.on('tab-detach') from a window, up to makeBrowserWindow's first await
TabDetach ==
    /\ Idle
    /\ CanStartCommand
    /\ \E id \in WindowIds : fromId(bw, id)
    /\ cmds' = Append(cmds, [kind |-> "tab-detach", by |-> "tab-detach",
                             pc |-> "storage"])
    /\ effects' = NoEffects
    /\ UNCHANGED <<store, currentState, bw, thens, micro, storage, ready, exit>>
    /\ UNCHANGED <<tabVars, uiVars>>

\* a command that asks for a session without awaiting the storage handle
CommandStartsSession_NoAwait ==
    \E k \in 1..Len(cmds) :
        /\ Idle
        /\ cmds[k].pc = "storage"
        /\ cmds' = [cmds EXCEPT ![k].pc = "session"]
        /\ effects' = NoEffects
        /\ UNCHANGED <<store, currentState, bw, thens, micro, storage, ready, exit>>
        /\ UNCHANGED <<tabVars, uiVars>>

\* a command gets the storage handle and asks it for a session
CommandStartsSession ==
    \E k \in 1..Len(cmds) :
        /\ Idle
        /\ cmds[k].pc = "storage"
        /\ storage.open = "resolved"
        /\ cmds' = [cmds EXCEPT ![k].pc = "session"]
        /\ effects' = NoEffects
        /\ UNCHANGED <<store, currentState, bw, thens, micro, storage, ready, exit>>
        /\ UNCHANGED <<tabVars, uiVars>>

Remove(q, k) == [j \in 1..(Len(q) - 1) |-> IF j < k THEN q[j] ELSE q[j + 1]]

\* startSession resolves: makeBrowserWindow creates the window, hidden and
\* loading, and the command dispatches createBrowserWindow
CommandCreatesWindow ==
    \E k \in 1..Len(cmds) :
        /\ Idle
        /\ cmds[k].pc = "session"
        /\ LET id   == Cardinality(Created) + 1
               wins == [bw EXCEPT ![id] =
                           [status |-> "open", loaded |-> FALSE,
                            tabInfo |-> cmds[k].kind = "tab-detach"]]
           IN  /\ bw' = wins
               /\ Dispatches(StoreAction("createBrowserWindow", id), wins)
        /\ cmds' = Remove(cmds, k)
        /\ UNCHANGED <<storage, ready, exit>>
        /\ UNCHANGED <<tabVars, uiVars>>

\* startSession rejects: the command's promise rejects unhandled, exit 2
CommandSessionFails ==
    \E k \in 1..Len(cmds) :
        /\ Idle
        /\ cmds[k].pc = "session"
        /\ cmds' = Remove(cmds, k)
        /\ exit' = UnhandledRejectionExit
        /\ effects' = NoEffects
        /\ UNCHANGED <<store, currentState, bw, thens, micro, storage, ready>>
        /\ UNCHANGED <<tabVars, uiVars>>

\* ipc.on('profile-command') from a window: the command handler has the
\* store dispatch the action a
ProfileCommand(a) ==
    /\ Idle
    /\ \E id \in WindowIds : fromId(bw, id)
    /\ Dispatches(a, bw)
    /\ UNCHANGED <<bw, cmds, storage, ready, exit>>
    /\ UNCHANGED <<tabVars, uiVars>>

\* the profile commands of a window, by the action they end in
SetsBookmarks ==
    \E S \in SUBSET StoredUrls :
        /\ exit = 0
        /\ ProfileCommand(StoreAction("bookmarkSet", S))

SetsRecentBookmarks ==
    \E S \in SUBSET StoredUrls :
        /\ exit = 0
        /\ ProfileCommand(StoreAction("recentBookmarks", ToJS(S)))

SetsLocations ==
    \E S \in SUBSET StoredUrls :
        /\ exit = 0
        /\ ProfileCommand(StoreAction("locations", S))

ClosesWindow ==
    \E id \in store.browserWindows :
        /\ exit = 0
        /\ ProfileCommand(StoreAction("closeBrowserWindow", id))

\* webContents 'did-finish-load' of a window, handled once: tab-attach when
\* the window was made for a detached tab, then the promise resolves and its
\* callbacks are queued
DidFinishLoad ==
    \E id \in WindowIds :
        /\ Idle
        /\ fromId(bw, id)
        /\ ~bw[id].loaded
        /\ bw' = [bw EXCEPT ![id].loaded = TRUE, ![id].tabInfo = FALSE]
        /\ micro' = micro \o thens[id]
        /\ thens' = [thens EXCEPT ![id] = <<>>]
        /\ effects' = [NoEffects EXCEPT
                          !.attached = IF bw[id].tabInfo THEN {id} ELSE {}]
        /\ UNCHANGED <<store, currentState, cmds, storage, ready, exit>>
        /\ UNCHANGED <<tabVars, uiVars>>

\* the window a call is made on: show and close throw on a window that was
\* destroyed; close destroys the window
Called(wins, id, effect) ==
    IF effect = "close"
    THEN [wins EXCEPT ![id].status = "destroyed", ![id].tabInfo = FALSE]
    ELSE wins

\* the first ready promise callback runs: () => bw.show() or () => bw.close();
\* on a window that was destroyed the call throws, the rejection is
\* unhandled, exit 2
RunThen ==
    /\ exit = 0
    /\ ready # "seeding"
    /\ micro # <<>>
    /\ LET cb == Head(micro)
       IN  /\ effects' = [NoEffects EXCEPT !.ran =
                             <<[id |-> cb.id, effect |-> cb.effect, by |-> "then",
                                loaded |-> bw[cb.id].loaded,
                                window |-> bw[cb.id].status]>>]
           /\ IF ~fromId(bw, cb.id)
              THEN exit' = UnhandledRejectionExit /\ bw' = bw
              ELSE exit' = exit /\ bw' = Called(bw, cb.id, cb.effect)
    /\ micro' = Tail(micro)
    /\ UNCHANGED <<store, currentState, thens, cmds, storage, ready>>
    /\ UNCHANGED <<tabVars, uiVars>>

\* ipc.on('window-loaded') from a window: event.returnValue is the store's
\* bookmarks and recent bookmarks, as arrays
WindowLoaded ==
    \E id \in WindowIds :
        /\ Idle
        /\ fromId(bw, id)
        /\ effects' = [NoEffects EXCEPT !.returned =
                          <<[to |-> id,
                             bookmarks |-> ToJS(store.bookmarks),
                             recentBookmarks |-> store.recentBookmarks]>>]
        /\ UNCHANGED <<store, currentState, bw, thens, micro, cmds, storage,
                       ready, exit>>
        /\ UNCHANGED <<tabVars, uiVars>>

\* ipc.on('window-ready') from a window: it is shown
WindowReady ==
    \E id \in WindowIds :
        /\ Idle
        /\ fromId(bw, id)
        /\ effects' = [NoEffects EXCEPT !.ran =
                          <<[id |-> id, effect |-> "show", by |-> "window-ready",
                             loaded |-> bw[id].loaded, window |-> bw[id].status]>>]
        /\ UNCHANGED <<store, currentState, bw, thens, micro, cmds, storage,
                       ready, exit>>
        /\ UNCHANGED <<tabVars, uiVars>>

\* a window is destroyed from outside the store: the user closes it
WindowDestroyed ==
    \E id \in WindowIds :
        /\ Idle
        /\ fromId(bw, id)
        /\ bw' = [bw EXCEPT ![id].status = "destroyed", ![id].tabInfo = FALSE]
        /\ effects' = NoEffects
        /\ UNCHANGED <<store, currentState, thens, micro, cmds, storage, ready, exit>>
        /\ UNCHANGED <<tabVars, uiVars>>

----------------------------------------------------------------------------
(* Initial states *)

TabInit ==
    /\ pages = initialState.pages
    /\ pageOrder = initialState.pageOrder
    /\ currentPageIndex = initialState.currentPageIndex
    /\ action = NoAction

\* a window starts from the bookmarks the main process hands it on load
UiSeeded ==
    /\ profile \in SUBSET Urls
    /\ sessions = [pageId \in PageIds |-> NoSession]
    /\ requests = <<>>
    /\ trail = <<>>

UiInit ==
    /\ profile = {}
    /\ sessions = [pageId \in PageIds |-> NoSession]
    /\ requests = <<>>
    /\ trail = <<>>

\* the main process as the module body of browser.js leaves it, over a
\* storage that holds nothing
MainEmpty ==
    /\ store = initialProfile
    /\ currentState = [defined |-> FALSE, value |-> initialProfile]
    /\ bw = [id \in WindowIds |-> NoWindow]
    /\ thens = [id \in WindowIds |-> <<>>]
    /\ micro = <<>>
    /\ cmds = <<>>
    /\ effects = NoEffects
    /\ storage = [open |-> "pending", starred |-> {}, recentlyStarred |-> <<>>]
    /\ ready = "waiting"
    /\ exit = 0

\* the main process as the module body of browser.js leaves it; the storage
\* holds any set of starred urls
MainInit ==
    /\ store = initialProfile
    /\ currentState = [defined |-> FALSE, value |-> initialProfile]
    /\ bw = [id \in WindowIds |-> NoWindow]
    /\ thens = [id \in WindowIds |-> <<>>]
    /\ micro = <<>>
    /\ cmds = <<>>
    /\ effects = NoEffects
    /\ storage \in {[open |-> "pending", starred |-> S, recentlyStarred |-> ToJS(S)] :
                       S \in SUBSET StoredUrls}
    /\ ready = "waiting"
    /\ exit = 0

Init == TabInit /\ UiInit /\ MainEmpty

Next ==
    \/ CreateTab(MaxPages)
    \/ DuplicateTab
    \/ AttachTab
    \/ CloseTab
    \/ SetLocation
    \/ SetPageDetails
    \/ SetCurrentTab
    \/ SetPageOrder

Spec == Init /\ [][Next]_vars

\* the reducer driven by CreateTab and CloseTab of existing pages only
NextCreateClose ==
    \/ CreateTab(MaxTabs)
    \/ CloseLiveTab

SpecCreateClose == Init /\ [][NextCreateClose]_vars

\* the reducer driven by opening, closing, selecting and reordering tabs
NextReorder ==
    \/ CreateTab(MaxReorder)
    \/ CloseTab
    \/ SetCurrentTab
    \/ SetPageOrder

SpecReorder == Init /\ [][NextReorder]_vars

\* a window dispatching bookmark actions
NextBookmarks ==
    \/ SetSessionId
    \/ Bookmark
    \/ Unbookmark
    \/ Settle

\* the main process
NextMain ==
    \/ StorageOpens
    \/ StorageFails
    \/ AppReady
    \/ ReadySeedsBookmarks
    \/ ReadySeedsRecent
    \/ Activate
    \/ TabDetach
    \/ CommandStartsSession
    \/ CommandCreatesWindow
    \/ CommandSessionFails
    \/ SetsBookmarks
    \/ SetsRecentBookmarks
    \/ SetsLocations
    \/ ClosesWindow
    \/ DidFinishLoad
    \/ RunThen
    \/ WindowLoaded
    \/ WindowReady
    \/ WindowDestroyed

InitMain == TabInit /\ UiInit /\ MainInit

SpecMain == InitMain /\ [][NextMain]_vars

\* the event loop runs every promise callback that is ready
FairSpecMain == SpecMain /\ WF_vars(RunThen)

InitBookmarks == TabInit /\ UiSeeded /\ MainEmpty

SpecBookmarks == InitBookmarks /\ [][NextBookmarks]_vars

----------------------------------------------------------------------------
(* Properties of the tab reducer *)

\* C1: under CreateTab and CloseTab of existing pages, pageOrder has the
\* length of pages, holds no duplicate, and holds exactly the indices
\* 0..pages.size-1.
C1_PageOrderIsPermutation ==
    /\ Len(pageOrder) = Len(pages)
    /\ \A i, j \in 1..Len(pageOrder) : pageOrder[i] = pageOrder[j] => i = j
    /\ {pageOrder[k] : k \in 1..Len(pageOrder)} = 0..(Len(pages) - 1)

\* a page other than the last one was closed and two or more remain
C1_Witness ==
    /\ action.type = "CLOSE_TAB"
    /\ action.pageIndex = 0
    /\ Len(pages) >= 2

\* C2: under CreateTab and CloseTab of existing pages,
\* 0 <= currentPageIndex < pages.size.
C2_CurrentPageIsLive ==
    /\ 0 <= currentPageIndex
    /\ currentPageIndex < Len(pages)

\* a page before the selected one was closed, and the selection moved down
C2_Witness ==
    /\ action.type = "CLOSE_TAB"
    /\ action.pageIndex = 0
    /\ Len(pages) >= 2
    /\ currentPageIndex = Len(pages) - 1

\* the index a page of the old list has once the page at pageIndex is gone
Renumbered(i, pageIndex) == IF i < pageIndex THEN i ELSE i - 1

\* C3: CloseTab of the selected page, on two or more pages whose pageOrder
\* is a permutation, selects the page that stood just before the closed one
\* in pageOrder (by its renumbered index), or the page now first in display
\* order when the closed page was first.
C3_SelectsPageBefore ==
    [][(/\ action'.type = "CLOSE_TAB"
        /\ Len(pages) >= 2
        /\ currentPageIndex = action'.pageIndex
        /\ IsPermutation(pageOrder, Len(pages)))
       => LET i == action'.pageIndex
              k == CHOOSE k \in 1..Len(pageOrder) : pageOrder[k] = i
          IN  currentPageIndex' =
                  IF k > 1 THEN Renumbered(pageOrder[k - 1], i)
                  ELSE Renumbered(pageOrder[2], i)]_vars

\* C4: CloseTab on a state of exactly one page gives the initial state,
\* whatever pageIndex is and whatever the page holds.
C4_LastTabResets ==
    [][(action'.type = "CLOSE_TAB" /\ Len(pages) = 1)
       => /\ pages' = <<[kind |-> "Page", location |-> HOME_PAGE,
                         userTyped |-> Null]>>
          /\ pageOrder' = <<0>>
          /\ currentPageIndex' = 0]_vars

\* CloseTab of an index the single page does not have has been handled
C4_Witness ==
    /\ action.type = "CLOSE_TAB"
    /\ action.pageIndex = -1
    /\ Len(pages) = 1
    /\ pages[1].location = HOME_PAGE
    /\ pageOrder = <<0>>
    /\ currentPageIndex = 0

C6_OnlyCurrentPageChanges ==
    [][(/\ \/ action'.type = "SET_LOCATION"
           \/ action'.type = "SET_PAGE_DETAILS" /\ action'.pageIndex = -1
        /\ 0 <= currentPageIndex
        /\ currentPageIndex < Len(pages))
       => /\ Len(pages') = Len(pages)
          /\ \A k \in 1..Len(pages) :
                 k # currentPageIndex + 1 => pages'[k] = pages[k]
          /\ pages'[currentPageIndex + 1].kind = pages[currentPageIndex + 1].kind
          /\ pageOrder' = pageOrder
          /\ currentPageIndex' = currentPageIndex]_vars

\* SetPageDetails(-1, details) has patched the first of two pages, which is
\* the selected one, and the other page holds none of the details
C6_Witness ==
    /\ action.type = "SET_PAGE_DETAILS"
    /\ action.pageIndex = -1
    /\ Len(pages) = 2
    /\ currentPageIndex = 0
    /\ pages[1].userTyped = Str("u")
    /\ pages[2].userTyped = Null

----------------------------------------------------------------------------
(* Properties of the bookmark actions *)

\* the last bookmark action dispatched
LastDispatch == trail[Len(trail)]

\* Bookmark(pageId, url) and then Unbookmark(pageId, url) were the last two
\* bookmark actions
RoundTrip ==
    /\ Len(trail) = 2
    /\ trail[1].type = "BOOKMARK"
    /\ trail[2].type = "UNBOOKMARK"
    /\ trail[1].url = trail[2].url
    /\ trail[1].pageId = trail[2].pageId

\* C7, as claimed: Bookmark(pageId, url, title) then Unbookmark(pageId, url)
\* leaves the membership of url in the bookmark set as it was before the
\* two, whether or not url was bookmarked; after the Bookmark alone url is a
\* member.
C7_RoundTripKeepsMembership ==
    /\ (trail # <<>> /\ LastDispatch.type = "BOOKMARK")
           => LastDispatch.url \in profile
    /\ RoundTrip => ((trail[2].url \in profile) = trail[1].before)

\* C7, amended: after the Bookmark alone url is a member; after Bookmark then
\* Unbookmark url is not a member, which is its membership before the two
\* exactly when it was not bookmarked before.
C7_RoundTripEndsUnbookmarked ==
    /\ (trail # <<>> /\ LastDispatch.type = "BOOKMARK")
           => LastDispatch.url \in profile
    /\ RoundTrip => trail[2].url \notin profile
    /\ (RoundTrip /\ ~trail[1].before)
           => ((trail[2].url \in profile) = trail[1].before)

\* a url that was not bookmarked has been bookmarked and unbookmarked
C7_Witness ==
    /\ RoundTrip
    /\ ~trail[1].before
    /\ trail[2].before
    /\ trail[2].url \notin profile

\* {base}/stars/{url-encoded(url)}, for the urls of the model
StarsTarget(url) ==
    IF url = <<"http", ":", "/", "/", "moz1.com">>
    THEN <<"{base}", "/stars/", "http", "%3A", "%2F", "%2F", "moz1.com">>
    ELSE <<"{base}", "/stars/", "moz2.com", "%2F", "a">>

Deletes(rs) == {k \in 1..Len(rs) : rs[k].method = "DELETE"}

\* C8: each Unbookmark(pageId, url) issues exactly one DELETE request, to
\* {base}/stars/{url-encoded(url)} with body { session: sessionId of the
\* page }; a Bookmark issues no DELETE; the bookmark set is updated when the
\* dispatch returns, while the request is pending, and no outcome of a
\* request changes it.
C8_UnbookmarkIssuesOneDelete ==
    [][LET e == trail'[Len(trail')]
       IN  /\ (trail' # trail /\ e.type = "UNBOOKMARK")
              => /\ Len(requests') = Len(requests) + 1
                 /\ \A k \in 1..Len(requests) : requests'[k] = requests[k]
                 /\ Deletes(requests') = Deletes(requests) \cup {Len(requests')}
                 /\ requests'[Len(requests')].target = StarsTarget(e.url)
                 /\ requests'[Len(requests')].session = sessions[e.pageId]
                 /\ requests'[Len(requests')].status = "pending"
                 /\ e.url \notin profile'
           /\ (trail' # trail /\ e.type = "BOOKMARK")
              => /\ Deletes(requests') = Deletes(requests)
                 /\ e.url \in profile'
           /\ (trail' = trail)
              => /\ Deletes(requests') = Deletes(requests)
                 /\ profile' = profile]_vars

\* the DELETE of an Unbookmark has failed and the url it named stays out of
\* the bookmark set
C8_Witness ==
    /\ trail # <<>>
    /\ LastDispatch.type = "UNBOOKMARK"
    /\ LastDispatch.before
    /\ LastDispatch.url = <<"http", ":", "/", "/", "moz1.com">>
    /\ requests[LastDispatch.request].method = "DELETE"
    /\ requests[LastDispatch.request].status = "failed"
    /\ requests[LastDispatch.request].session = 1
    /\ LastDispatch.url \notin profile

----------------------------------------------------------------------------
(* Properties of the main process *)

\* the messages of the last handler that carry a diff of the given type
DiffsSent(sent, type) == {k \in 1..Len(sent) : sent[k].args.type = type}

\* what a run of the diff engine owes one field: when the field changed, one
\* profile-diff with the field's current value to each window of the
\* registry that exists, and to no other; when it did not, nothing
FieldReplicated(changed, value, type, targets, sent) ==
    IF changed
    THEN /\ \A id \in targets :
                Cardinality({k \in DiffsSent(sent, type) : sent[k].to = id}) = 1
         /\ \A k \in DiffsSent(sent, type) :
                /\ sent[k].to \in targets
                /\ sent[k].event = "profile-diff"
                /\ Len(sent[k].args.payload) = Cardinality(value)
                /\ {sent[k].args.payload[j] : j \in 1..Len(sent[k].args.payload)}
                       = value
    ELSE DiffsSent(sent, type) = {}

\* C9: on a run of the diff engine with a previous snapshot, a field of
\* bookmarks and locations that differs from the snapshot gets exactly one
\* profile-diff, carrying its current value, to each live window of the
\* registry, a field that is equal gets none, and the menu is rebuilt only
\* if recentBookmarks changed; bookmarks going from {} to {"http://a.com"}
\* alone gives one profile-diff (bookmarks) per window and nothing else.
C9_OneDiffPerChangedField ==
    [][(effects'.diffed /\ currentState.defined)
       => LET prev    == currentState.value
              cur     == store'
              sent    == effects'.sent
              targets == {id \in cur.browserWindows : bw'[id].status = "open"}
          IN  /\ FieldReplicated(cur.bookmarks # prev.bookmarks, cur.bookmarks,
                                 "bookmarks", targets, sent)
              /\ FieldReplicated(cur.locations # prev.locations, cur.locations,
                                 "completions", targets, sent)
              /\ \A k \in 1..Len(sent) :
                     sent[k].args.type \in {"bookmarks", "completions"}
              /\ effects'.menu <= 1
              /\ effects'.menu = 1 => cur.recentBookmarks # prev.recentBookmarks
              /\ (/\ prev.bookmarks = {}
                  /\ cur.bookmarks = {"http://a.com"}
                  /\ cur.locations = prev.locations
                  /\ cur.recentBookmarks = prev.recentBookmarks)
                 => /\ Len(sent) = Cardinality(targets)
                    /\ DiffsSent(sent, "bookmarks") = 1..Len(sent)
                    /\ effects'.menu = 0]_vars

\* a run of the diff engine sent the bookmarks, and nothing else, to the one
\* window of a registry of two that still exists
C9_Witness ==
    /\ effects.diffed
    /\ store.bookmarks = {"http://a.com"}
    /\ store.browserWindows = {1, 2}
    /\ bw[1].status = "destroyed"
    /\ bw[2].status = "open"
    /\ Len(effects.sent) = 1
    /\ effects.sent[1].to = 2
    /\ effects.sent[1].args.type = "bookmarks"
    /\ effects.menu = 0

\* a callback of the diff engine for the window id is ready to run
Ready(id, effect) ==
    \E k \in 1..Len(micro) : micro[k].id = id /\ micro[k].effect = effect

\* the last step ran the diff engine's callback on the window id
Ran(id, effect) ==
    \E k \in 1..Len(effects.ran) :
        /\ effects.ran[k].id = id
        /\ effects.ran[k].effect = effect
        /\ effects.ran[k].by = "then"

\* C10: the show (close) the diff engine schedules for a window newly in
\* (newly out of) the registry runs only once that window's finished-loading
\* signal has fired, and once it has fired the show (close) does run.
C10_AfterFinishedLoading ==
    /\ [](/\ \A k \in 1..Len(effects.ran) :
                effects.ran[k].by = "then" => effects.ran[k].loaded
          /\ \A k \in 1..Len(micro) : bw[micro[k].id].loaded
          /\ \A id \in WindowIds : bw[id].loaded => thens[id] = <<>>)
    /\ \A id \in WindowIds : \A effect \in {"show", "close"} :
           Ready(id, effect) ~> Ran(id, effect)

\* the diff engine's show of a window has run, after the window's
\* finished-loading signal
C10_Witness ==
    /\ Ran(1, "show")
    /\ effects.ran[1].loaded
    /\ bw[1].status = "open"
    /\ bw[1].loaded

Windows(wins) == {id \in WindowIds : wins[id].status # "none"}

\* C12: a window is registered in the store only in the step that creates
\* it, by a command that held the storage handle and whose startSession
\* resolved; a window is created only with its registration; a command whose
\* startSession fails creates no window, dispatches nothing and leaves the
\* store and the subscriber's snapshot as they were; and while the storage
\* has not opened, or has failed to open, there is no window and the
\* registry is empty.
C12_CommandAllOrNothing ==
    /\ [][/\ \A id \in WindowIds :
                (id \in store'.browserWindows /\ id \notin store.browserWindows)
                => /\ storage.open = "resolved"
                   /\ \E k \in 1..Len(cmds) :
                          cmds[k].pc = "session" /\ cmds' = Remove(cmds, k)
                   /\ bw[id].status = "none"
                   /\ bw'[id].status = "open"
                   /\ effects'.diffed
                   /\ currentState'.value = store'
          /\ \A id \in WindowIds :
                (bw[id].status = "none" /\ bw'[id].status # "none")
                => id \in store'.browserWindows
          /\ (Len(cmds') < Len(cmds) /\ exit' # 0)
                => /\ store' = store
                   /\ currentState' = currentState
                   /\ bw' = bw
                   /\ thens' = thens
                   /\ ~effects'.diffed
                   /\ effects'.sent = <<>>]_vars
    /\ [](storage.open # "resolved"
            => /\ Windows(bw) = {}
               /\ store.browserWindows = {}
               /\ \A k \in 1..Len(cmds) : cmds[k].pc = "storage")

\* the session of a tab-detach failed to start after the first window was
\* created: the process has exited and nothing of the command is visible
C12_Witness ==
    /\ exit = 2
    /\ storage.open = "resolved"
    /\ store.browserWindows = {1}
    /\ currentState.value.browserWindows = {1}
    /\ bw[2].status = "none"
    /\ cmds = <<>>
    /\ ~effects.diffed

\* C13: once the storage has failed to open the process has exited with
\* status 2, which is neither 0 nor the status 1 of an uncaught exception;
\* no action was ever dispatched to the store, no subscriber ran, no window
\* exists, the ready handler never got past its await, and no command got
\* past its await of the storage handle; and no step is taken by a process
\* that has exited.
C13_StorageFailureAborts ==
    /\ [](storage.open = "rejected"
            => /\ exit = UnhandledRejectionExit
               /\ exit # 0
               /\ exit # UncaughtExceptionExit
               /\ store = initialProfile
               /\ ~currentState.defined
               /\ ~effects.diffed
               /\ Windows(bw) = {}
               /\ ready \in {"waiting", "storage"}
               /\ \A k \in 1..Len(cmds) : cmds[k].pc = "storage"
               /\ micro = <<>>)
    /\ [][exit = 0]_vars

\* the storage failed to open while the ready handler and the command of an
\* activate event were awaiting it
C13_Witness ==
    /\ storage.open = "rejected"
    /\ storage.starred = {"http://a.com"}
    /\ ready = "storage"
    /\ Len(cmds) = 1
    /\ exit = 2

\* C14: DuplicateTab(pageIndex) of a live page, on n pages, leaves pages
\* 0..n-1 unchanged and appends one page whose location is the location (a
\* URL string) of the page at pageIndex, appends n to pageOrder and sets
\* currentPageIndex to n, as CreateTab with that location does.
C14_DuplicateTabClonesLocation ==
    [][(/\ action'.type = "DUPLICATE_TAB"
        /\ 0 <= action'.pageIndex
        /\ action'.pageIndex < Len(pages))
       => LET n        == Len(pages)
              location == pages[action'.pageIndex + 1].location
              created  == createTab(TabState, location)
          IN  /\ Len(pages') = n + 1
              /\ \A k \in 1..n : pages'[k] = pages[k]
              /\ pages'[n + 1].location = location
              /\ pages'[n + 1].location.tag = "string"
              /\ pageOrder' = Append(pageOrder, n)
              /\ currentPageIndex' = n
              /\ pages' = created.pages
              /\ pageOrder' = created.pageOrder
              /\ currentPageIndex' = created.currentPageIndex]_vars

\* the callbacks with the given effect that a step has registered for the
\* window id, waiting for its load or ready to run
Scheduled(id, effect, ts, ts2, mq, mq2) ==
    Cardinality({k \in (Len(ts[id]) + 1)..Len(ts2[id]) : ts2[id][k].effect = effect})
    + Cardinality({k \in (Len(mq) + 1)..Len(mq2) :
                      mq2[k].id = id /\ mq2[k].effect = effect})

\* C15, as claimed: on a run of the diff engine with a previous snapshot,
\* one show is scheduled for each id in the current registry and not in the
\* previous one, one close for each id in the previous registry and not in
\* the current one, and nothing for any other id.
C15_DiffedById ==
    [][(effects'.diffed /\ currentState.defined)
       => \A id \in WindowIds :
              LET prev == currentState.value.browserWindows
                  cur  == store'.browserWindows
              IN  /\ Scheduled(id, "show", thens, thens', micro, micro')
                         = (IF id \in cur \ prev THEN 1 ELSE 0)
                  /\ Scheduled(id, "close", thens, thens', micro, micro')
                         = (IF id \in prev \ cur THEN 1 ELSE 0)]_vars

\* C15, amended: the same, for the ids whose window still exists; for an id
\* whose window has been destroyed nothing is scheduled.
C15_DiffedByIdOfLiveWindows ==
    [][(effects'.diffed /\ currentState.defined)
       => \A id \in WindowIds :
              LET prev == currentState.value.browserWindows
                  cur  == store'.browserWindows
                  live == bw'[id].status = "open"
              IN  /\ Scheduled(id, "show", thens, thens', micro, micro')
                         = (IF id \in cur \ prev /\ live THEN 1 ELSE 0)
                  /\ Scheduled(id, "close", thens, thens', micro, micro')
                         = (IF id \in prev \ cur /\ live THEN 1 ELSE 0)
                  /\ (id \in cur \ prev) => live]_vars

\* the first of two registered, loaded windows has been taken out of the
\* registry: its close is ready to run and nothing is scheduled for the other
C15_Witness ==
    /\ effects.diffed
    /\ store.browserWindows = {2}
    /\ bw[1].status = "open" /\ bw[1].loaded
    /\ bw[2].status = "open" /\ bw[2].loaded
    /\ micro = <<[id |-> 1, effect |-> "close"]>>
    /\ thens[2] = <<>>

\* C16: CloseTab(pageIndex), for every pageIndex, one that names no page
\* included, on two or more pages whose pageOrder is a permutation of their
\* indices, gives a pageOrder that is a permutation of the indices of the
\* pages that remain and a currentPageIndex that addresses one of them.
C16_CloseTabKeepsInvariant ==
    [][(/\ action'.type = "CLOSE_TAB"
        /\ Len(pages) >= 2
        /\ IsPermutation(pageOrder, Len(pages)))
       => /\ IsPermutation(pageOrder', Len(pages'))
          /\ 0 <= currentPageIndex'
          /\ currentPageIndex' < Len(pages')]_vars

\* C17: CloseTab(pageIndex) of a page that exists and is not the selected
\* one, on two or more pages, decrements currentPageIndex by one exactly
\* when it was greater than pageIndex and leaves it unchanged otherwise, and
\* where currentPageIndex addressed a page it addresses the same page after.
C17_KeepsSelectedPage ==
    [][(/\ action'.type = "CLOSE_TAB"
        /\ Len(pages) >= 2
        /\ 0 <= action'.pageIndex
        /\ action'.pageIndex < Len(pages)
        /\ action'.pageIndex # currentPageIndex)
       => /\ currentPageIndex' =
                 (IF currentPageIndex > action'.pageIndex
                  THEN currentPageIndex - 1
                  ELSE currentPageIndex)
          /\ (0 <= currentPageIndex /\ currentPageIndex < Len(pages))
                 => /\ 0 <= currentPageIndex'
                    /\ currentPageIndex' < Len(pages')
                    /\ pages'[currentPageIndex' + 1] = pages[currentPageIndex + 1]]_vars

\* the first page has been closed and the page at http://a.com, which comes
\* after it, is selected at its new index
C17_Witness ==
    /\ action.type = "CLOSE_TAB"
    /\ action.pageIndex = 0
    /\ Len(pages) = 2
    /\ currentPageIndex = 0
    /\ pages[1].location = Str("http://a.com")
    /\ pages[2].location = HOME_PAGE

\* the pages read through the page order po
Displayed(ps, po) == [k \in 1..Len(po) |-> ps[po[k] + 1]]

\* the sequence q without its element at position k
Without(q, k) == [j \in 1..(Len(q) - 1) |-> IF j < k THEN q[j] ELSE q[j + 1]]

\* C18: CloseTab(pageIndex) of a page that exists, on two or more pages with
\* any permutation as pageOrder, removes that page from pages and leaves the
\* others as they were, and the pages read through pageOrder are the ones
\* read before, in the same order, without the closed page.
C18_RemovesExactlyThatPage ==
    [][(/\ action'.type = "CLOSE_TAB"
        /\ Len(pages) >= 2
        /\ 0 <= action'.pageIndex
        /\ action'.pageIndex < Len(pages)
        /\ IsPermutation(pageOrder, Len(pages)))
       => LET i == action'.pageIndex
              k == CHOOSE k \in 1..Len(pageOrder) : pageOrder[k] = i
          IN  /\ pages' = Without(pages, i + 1)
              /\ IsPermutation(pageOrder', Len(pages'))
              /\ Displayed(pages', pageOrder')
                     = Without(Displayed(pages, pageOrder), k)]_vars

\* the second of three pages has been closed; the last page, shown before
\* the first, is still shown before it
C18_Witness ==
    /\ action.type = "CLOSE_TAB"
    /\ action.pageIndex = 1
    /\ Len(pages) = 2
    /\ pageOrder = <<1, 0>>
    /\ pages[1].location = HOME_PAGE
    /\ pages[2].location = Str("http://a.com")

\* the commands under way that an activate event started
Activations(q) == {k \in 1..Len(q) : q[k].by = "activate"}

\* C19: an activate event starts a new-window command only when the registry
\* is empty, and the activate events that find one empty registry lead to
\* one new window between them: when the command of an activate event
\* registers the window it created, no command of another activate event is
\* under way to create a second one.
C19_OneWindowPerActivation ==
    [][/\ (Cardinality(Activations(cmds')) > Cardinality(Activations(cmds)))
             => store.browserWindows = {}
       /\ (/\ Cardinality(Activations(cmds')) < Cardinality(Activations(cmds))
           /\ store'.browserWindows # store.browserWindows)
             => Activations(cmds') = {}]_vars

\* C20: no window is created and no window-loaded query is answered before
\* the ready handler has dispatched the starred set and the recent
\* bookmarks of the storage, so that the value returned to a window holds
\* what the store was seeded with.
C20_SeededBeforeWindows ==
    [][/\ \A id \in WindowIds :
             (bw[id].status = "none" /\ bw'[id].status # "none")
             => ready = "done"
       /\ effects'.returned # <<>>
             => /\ ready = "done"
                /\ currentState.defined]_vars

====
